---- MODULE Spec2Model ----
(***************************************************************************)
(* Model of the "2nd Brain" backend: connector synchronisation             *)
(* (api/integration_routes.py), the document store                         *)
(* (services/document_service.py, api/document_routes.py) and the vector   *)
(* index (services/vector_service.py).                                     *)
(*                                                                         *)
(* The relational store is the committed database state.  A request        *)
(* handler's writes become visible when its session commits at the end of  *)
(* the request; the background task commits explicitly (db.commit()).      *)
(* Every await between two commits is a point where other handlers and     *)
(* tasks may run, so a handler is a sequence of steps with a position.     *)
(* An ORM write updates only the columns that were assigned.               *)
(***************************************************************************)
EXTENDS Integers, Sequences, FiniteSets, TLC

\* ------------------------------------------------------------------ bounds
MaxSyncs == 2       \* background sync tasks ever scheduled
MaxReqs  == 2       \* start_sync requests that may be in flight together
MaxBatch == 2       \* items in one fetched batch
MaxDocs  == 2       \* documents created through the document routes
MaxIds   == 2       \* ids in one bulk request
MaxCallIds   == 3   \* ids in one call of bulk_delete_documents
MaxBatchSize == 2   \* batch_size in one call of bulk_delete_documents
MaxTurns  == 2      \* chat turns requested
MaxChunks == 2      \* deltas one streamed completion sends
MaxPrior  == 5      \* answered turns a session holds at the start
MaxCalls  == 1      \* direct calls of upsert_documents_batch

\* --------------------------------------------------------------- constants
None == "None"      \* Python None / SQL NULL

Tenants      == {"t1", "t2"}
ConnectorIds == {"c1", "c2", "c3"}
\* the ConnectorType members get_connector_class has a class for
KnownTypes   == {"google_drive", "slack", "notion"}
ExternalIds  == {"e1", "e2"}
Contents     == {"v1"}

Requests == 1 .. MaxReqs

RECURSIVE SeqsUpTo(_, _)
SeqsUpTo(S, n) ==
    IF n = 0 THEN {<<>>}
    ELSE LET shorter == SeqsUpTo(S, n - 1)
         IN  shorter \cup {Append(s, x) : s \in {q \in shorter : Len(q) = n - 1}, x \in S}

\* what fetch_items returns: items carry an external id (possibly absent)
Items   == [external_id : ExternalIds \cup {None}, content : Contents]
Batches == SeqsUpTo(Items, MaxBatch)

VARIABLES
    connectors,   \* table connectors: id -> row
    progress,     \* table sync_progress: connector id -> rows with that connector_id
    documents,    \* table documents: set of rows
    next_doc,     \* number of Document ids generated so far
    vectors,      \* vector index: set of <<namespace, vector id>>
    reqs,         \* start_sync requests in flight
    tasks,        \* background tasks scheduled, in scheduling order
    poll,         \* the latest get_sync_progress response
    doc_op,       \* the latest document request: what was asked and answered
    messages,     \* table chat_messages: session id -> rows in creation order
    turn,         \* the chat turn in flight, or the last one ended
    sessions      \* table chat_sessions: session id -> row, or no row yet

vars == <<connectors, progress, documents, next_doc, vectors, reqs, tasks, poll,
          doc_op, messages, turn, sessions>>

\* ------------------------------------------------------------------ tables
\* Connector(...) with the column defaults
Connector(tenant, ctype) ==
    [tenant_id |-> tenant, connector_type |-> ctype, sync_status |-> "idle",
     last_sync_at |-> None, sync_error |-> None]

\* SyncProgress(connector_id=...) with the column defaults
SyncProgress ==
    [status |-> "idle", total_items |-> 0, processed_items |-> 0,
     indexed_items |-> 0, failed_items |-> 0, current_step |-> None,
     error_message |-> None, started_at |-> None, completed_at |-> None]

\* Document(...) as create_documents_bulk builds it, with the column defaults
Document(id, tenant, connector, item) ==
    [id |-> id, tenant_id |-> tenant, connector_id |-> connector,
     external_id |-> item.external_id, content |-> item.content,
     status |-> "pending", classification |-> None, project_id |-> None,
     is_indexed |-> FALSE, vector_id |-> None]

\* get_connector_class: the class of a connector type, or None
get_connector_class(ctype) == IF ctype \in KnownTypes THEN ctype ELSE None

\* the columns of `upd` assigned to the ORM object `row`
Assign(row, upd) ==
    [f \in DOMAIN row |-> IF f \in DOMAIN upd THEN upd[f] ELSE row[f]]

\* the UPDATE of row i of connector c's sync_progress rows
SetProgress(c, i, upd) ==
    [progress EXCEPT ![c] = [@ EXCEPT ![i] = Assign(@, upd)]]

SetConnector(c, upd) ==
    [connectors EXCEPT ![c] = Assign(@, upd)]

NoPoll == [code |-> 0]

\* no document request answered yet
NoOp == [op |-> None, tenant |-> None, ids |-> <<>>, code |-> 0, count |-> 0, writes |-> 0]

IdleReq == [pc |-> "idle", tenant |-> None, connector_id |-> None,
            seen |-> None, row |-> 0, resp |-> 0]

\* the chat sessions that exist from the start, the session ids there are,
\* and the tenant each belongs to
ChatSessions == {"s1", "s2"}
SessionIds == ChatSessions \cup {"s3"}
SessionTenant(s) == IF s = "s2" THEN "t2" ELSE "t1"

\* ChatSession(...) created at time `now`; NoSession where there is no row
ChatSession(now) == [exists |-> TRUE, created_at |-> now, updated_at |-> now]
NoSession == [exists |-> FALSE, created_at |-> 0, updated_at |-> 0]

\* no chat turn yet
NoTurn ==
    [pc |-> "idle", mode |-> None, tenant |-> None, session |-> None, n |-> 0,
     user_id |-> 0, history |-> <<>>, docs |-> <<>>, context |-> <<>>,
     system |-> <<>>, chunks |-> <<>>, full_response |-> <<>>,
     code |-> 0, done |-> FALSE, message_id |-> 0, raised |-> None,
           stopped |-> FALSE, arrived |-> <<>>]

\* the tables of connectors, sync progress and documents, the index, and the
\* requests and tasks, before anything has run
InitSync ==
    /\ connectors = [c \in ConnectorIds |->
                        CASE c = "c1" -> Connector("t1", "slack")
                          [] c = "c2" -> Connector("t2", "notion")
                          [] c = "c3" -> Connector("t1", "onedrive")]
    /\ progress = [c \in ConnectorIds |-> <<>>]
    /\ documents = {}
    /\ next_doc = 0
    /\ vectors = {}
    /\ reqs = [r \in Requests |-> IdleReq]
    /\ tasks = <<>>
    /\ poll = NoPoll
    /\ doc_op = NoOp

Init ==
    /\ InitSync
    /\ messages = [s \in SessionIds |-> <<>>]
    /\ turn = NoTurn
    /\ sessions = [s \in SessionIds |-> IF s \in ChatSessions THEN ChatSession(0) ELSE NoSession]

\* --------------------------------------------------------------- start_sync
InFlight == {r \in Requests : reqs[r].pc # "idle"}

TaskIds == 1 .. Len(tasks)
Ended(t) == t.pc \in {"done", "crashed"}
ActiveTasks(c) == {i \in TaskIds : tasks[i].connector_id = c /\ ~Ended(tasks[i])}

\* the HTTP response of a finished request
Respond(r, code) == [reqs EXCEPT ![r] = [IdleReq EXCEPT !.resp = code]]

\* a start_sync request of tenant t for connector c arrives (requests are
\* interchangeable: the lowest free slot takes it)
\* a request for a connector with more than one progress row can never
\* schedule a task (no code path removes a row): it does not count against
\* MaxSyncs
CannotSchedule(t, c) == connectors[c].tenant_id = t /\ Len(progress[c]) > 1

StartSyncCall(r, t, c) ==
    /\ reqs[r].pc = "idle"
    /\ \A q \in Requests : q < r => reqs[q].pc # "idle"
    /\ \/ Len(tasks) + Cardinality(InFlight) < MaxSyncs
       \/ CannotSchedule(t, c)
    /\ reqs' = [reqs EXCEPT ![r] = [pc |-> "check", tenant |-> t,
                                    connector_id |-> c, seen |-> None,
                                    row |-> 0, resp |-> 0]]
    /\ UNCHANGED <<connectors, progress, documents, next_doc, vectors, tasks, poll, doc_op, messages, turn, sessions>>

\* start_sync that selects the connector by its id alone
StartSyncCheck_AnyTenant(r) ==
    LET c == reqs[r].connector_id IN
    /\ reqs[r].pc = "check"
    /\ IF connectors[c].sync_status = "syncing"
         THEN reqs' = Respond(r, 400)
         ELSE reqs' = [reqs EXCEPT ![r].pc = "progress",
                                   ![r].seen = connectors[c].sync_status]
    /\ UNCHANGED <<connectors, progress, documents, next_doc, vectors, tasks, poll, doc_op, messages, turn, sessions>>

\* start_sync: select the connector of the tenant; 404 if there is none,
\* 400 if it is syncing
StartSyncCheck(r) ==
    LET c == reqs[r].connector_id IN
    /\ reqs[r].pc = "check"
    /\ IF connectors[c].tenant_id # reqs[r].tenant
         THEN reqs' = Respond(r, 404)
       ELSE IF connectors[c].sync_status = "syncing"
         THEN reqs' = Respond(r, 400)
       ELSE reqs' = [reqs EXCEPT ![r].pc = "progress",
                                 ![r].seen = connectors[c].sync_status]
    /\ UNCHANGED <<connectors, progress, documents, next_doc, vectors, tasks, poll, doc_op, messages, turn, sessions>>

\* start_sync: select the SyncProgress of the connector (scalar_one_or_none
\* raises when there is more than one row)
StartSyncProgress(r) ==
    LET c == reqs[r].connector_id IN
    /\ reqs[r].pc = "progress"
    /\ IF Len(progress[c]) > 1
         THEN reqs' = Respond(r, 500)
         ELSE reqs' = [reqs EXCEPT ![r].pc = "write", ![r].row = Len(progress[c])]
    /\ UNCHANGED <<connectors, progress, documents, next_doc, vectors, tasks, poll, doc_op, messages, turn, sessions>>

\* a reset that leaves the previous attempt's error message in place
ResetProgress_KeepsError ==
    [status |-> "syncing", total_items |-> 0, processed_items |-> 0,
     indexed_items |-> 0, failed_items |-> 0, current_step |-> "Starting sync...",
     started_at |-> "now", completed_at |-> None]

\* the values start_sync assigns to the progress record
ResetProgress ==
    [status |-> "syncing", total_items |-> 0, processed_items |-> 0,
     indexed_items |-> 0, failed_items |-> 0, current_step |-> "Starting sync...",
     error_message |-> None, started_at |-> "now", completed_at |-> None]

\* a task that takes up the work of the connector's last failed task at
\* the step that failed
NewTask_Resume(c, t) ==
    LET failed == {j \in TaskIds : tasks[j].connector_id = c /\ tasks[j].pc = "done"
                                   /\ tasks[j].err \in {"fetch", "dedup", "persist", "index"}}
        base == [connector_id |-> c, connector_type |-> connectors[c].connector_type,
                 tenant_id |-> t, pc |-> "start", row |-> 0, items |-> <<>>,
                 new_items |-> <<>>, docs |-> <<>>, indexed |-> <<>>, err |-> None,
                 lookups |-> 0,
                 prior_docs |-> {d \in documents : d.connector_id = c} # {},
                 after |-> {i \in TaskIds : tasks[i].pc \in {"done", "crashed"}}]
    IN  IF failed = {} THEN base
        ELSE LET j == CHOOSE k \in failed : \A l \in failed : l <= k
             IN  [base EXCEPT !.pc = tasks[j].err, !.row = 1, !.items = tasks[j].items,
                              !.new_items = tasks[j].new_items, !.docs = tasks[j].docs]

\* the background task start_sync adds, with the arguments it passes
NewTask(c, t) ==
    [connector_id |-> c, connector_type |-> connectors[c].connector_type,
     tenant_id |-> t, pc |-> "start", row |-> 0, items |-> <<>>,
     new_items |-> <<>>, docs |-> <<>>, indexed |-> <<>>, err |-> None,
     lookups |-> 0,
     \* history: what was true when the task was scheduled
     prior_docs |-> {d \in documents : d.connector_id = c} # {},
     after |-> {i \in TaskIds : Ended(tasks[i])}]

\* start_sync: create or reset the progress record, mark the connector
\* syncing, flush, add the background task; the session commits as the
\* request ends
StartSyncWrite(r) ==
    LET c == reqs[r].connector_id
        i == reqs[r].row
    IN
    /\ reqs[r].pc = "write"
    /\ progress' = IF i = 0
                     THEN [progress EXCEPT ![c] = Append(@, Assign(SyncProgress, ResetProgress))]
                     ELSE SetProgress(c, i, ResetProgress)
    /\ connectors' = SetConnector(c, [sync_status |-> "syncing"])
    /\ tasks' = Append(tasks, NewTask(c, reqs[r].tenant))
    /\ reqs' = Respond(r, 200)
    /\ UNCHANGED <<documents, next_doc, vectors, poll, doc_op, messages, turn, sessions>>

\* start_sync once the request is in
start_sync(r) ==
    \/ StartSyncCheck(r)
    \/ StartSyncProgress(r)
    \/ StartSyncWrite(r)

\* ------------------------------------------------------------ run_sync_task
SetTask(i, upd) == [tasks EXCEPT ![i] = Assign(@, upd)]

\* the exception handler is entered with exception text e
Raise(i, e) == SetTask(i, [pc |-> "handler", err |-> e])

\* run_sync_task: select the progress record (scalar_one raises unless there
\* is exactly one row); an unknown connector type marks the record failed and
\* returns; otherwise the step label is committed
TaskStart(i) ==
    LET t == tasks[i]
        c == t.connector_id
    IN
    /\ t.pc = "start"
    /\ IF Len(progress[c]) # 1
         THEN /\ tasks' = Raise(i, "scalar_one")
              /\ UNCHANGED progress
       ELSE IF get_connector_class(t.connector_type) = None
         THEN /\ progress' = SetProgress(c, 1, [status |-> "failed",
                                 error_message |-> "Unknown connector type"])
              /\ tasks' = SetTask(i, [pc |-> "done", row |-> 1])
       ELSE /\ progress' = SetProgress(c, 1,
                                 [current_step |-> "Fetching items from source..."])
            /\ tasks' = SetTask(i, [pc |-> "fetch", row |-> 1])
    /\ UNCHANGED <<connectors, documents, next_doc, vectors, reqs, poll, doc_op, messages, turn, sessions>>

\* fetch_items returned `items`: total_items and the step label are committed
TaskFetch(i, items) ==
    LET t == tasks[i] IN
    /\ t.pc = "fetch"
    /\ progress' = SetProgress(t.connector_id, t.row,
                       [total_items |-> Len(items), current_step |-> "Processing items..."])
    /\ tasks' = SetTask(i, [pc |-> "dedup", items |-> items])
    /\ UNCHANGED <<connectors, documents, next_doc, vectors, reqs, poll, doc_op, messages, turn, sessions>>

Truthy(x) == x # None

\* a lookup that queries once per external id
Lookups_PerId(external_ids) == Len(external_ids)

\* DocumentService.find_by_external_ids: the queries it sends, none for an
\* empty list and one IN query otherwise
Lookups(external_ids) == IF external_ids = <<>> THEN 0 ELSE 1

\* a lookup that matches only documents already in the vector index
find_by_external_ids_IndexedOnly(external_ids, connector_id) ==
    IF external_ids = <<>> THEN <<>>
    ELSE LET ids   == {external_ids[k] : k \in 1 .. Len(external_ids)}
             found == {d \in documents : d.external_id \in ids
                                         /\ d.connector_id = connector_id
                                         /\ <<d.tenant_id, d.id>> \in vectors}
         IN  [e \in {d.external_id : d \in found} |->
                 CHOOSE d \in found : d.external_id = e]

\* DocumentService.find_by_external_ids: external id -> a Document of the
\* connector with that external id, no query for an empty list
find_by_external_ids(external_ids, connector_id) ==
    IF external_ids = <<>> THEN <<>>
    ELSE LET ids   == {external_ids[k] : k \in 1 .. Len(external_ids)}
             found == {d \in documents : d.external_id \in ids
                                         /\ d.connector_id = connector_id}
         IN  [e \in {d.external_id : d \in found} |->
                 CHOOSE d \in found : d.external_id = e]

\* a dedup that keeps every item of the batch
NewItems_All(items, existing) == items

\* the items of the batch that are not matched by an existing document
NewItems(items, existing) ==
    LET IsNew(item) == ~(Truthy(item.external_id) /\ item.external_id \in DOMAIN existing)
    IN  SelectSeq(items, IsNew)

\* run_sync_task: look up the batch's external ids and keep the new items
TaskDedup(i) ==
    LET t == tasks[i]
        HasId(item) == Truthy(item.external_id)
        with_id == SelectSeq(t.items, HasId)
        external_ids == [k \in 1 .. Len(with_id) |-> with_id[k].external_id]
        existing == find_by_external_ids(external_ids, t.connector_id)
        new_items == NewItems(t.items, existing)
    IN
    /\ t.pc = "dedup"
    /\ tasks' = SetTask(i, [pc |-> IF new_items # <<>> THEN "persist" ELSE "finish",
                            new_items |-> new_items,
                            lookups |-> Lookups(external_ids)])
    /\ UNCHANGED <<connectors, progress, documents, next_doc, vectors, reqs, poll, doc_op, messages, turn, sessions>>

\* DocumentService.create_documents_bulk: one Document per input, in input
\* order, with fresh ids
create_documents_bulk(tenant_id, connector_id, items) ==
    [k \in 1 .. Len(items) |-> Document(next_doc + k, tenant_id, connector_id, items[k])]

\* run_sync_task: create the new documents, commit them with processed_items
TaskPersist(i) ==
    LET t == tasks[i]
        docs == create_documents_bulk(t.tenant_id, t.connector_id, t.new_items)
    IN
    /\ t.pc = "persist"
    /\ documents' = documents \cup {docs[k] : k \in 1 .. Len(docs)}
    /\ next_doc' = next_doc + Len(docs)
    /\ progress' = SetProgress(t.connector_id, t.row,
                       [processed_items |-> Len(docs), current_step |-> "Indexing documents..."])
    /\ tasks' = SetTask(i, [pc |-> "index", docs |-> [k \in 1 .. Len(docs) |-> docs[k].id]])
    /\ UNCHANGED <<connectors, vectors, reqs, poll, doc_op, messages, turn, sessions>>

\* the default batch_size of upsert_documents_batch
DefaultBatchSize == 100

\* slicing that puts the whole list into one batch
Slices_Whole(seq, batch_size) == IF seq = <<>> THEN <<>> ELSE <<seq>>

\* seq[i : i + batch_size] for i in range(0, len(seq), batch_size)
RECURSIVE Slices(_, _)
Slices(seq, batch_size) ==
    IF seq = <<>> THEN <<>>
    ELSE LET n == IF batch_size < Len(seq) THEN batch_size ELSE Len(seq)
         IN  <<SubSeq(seq, 1, n)>> \o Slices(SubSeq(seq, n + 1, Len(seq)), batch_size)

\* the concatenation of a sequence of sequences
RECURSIVE Flatten(_)
Flatten(seqs) == IF seqs = <<>> THEN <<>> ELSE Head(seqs) \o Flatten(Tail(seqs))

\* embeddings.create: one embedding per input text, in input order
Embeddings(texts) == [k \in 1 .. Len(texts) |-> [of |-> texts[k]]]

\* AIService.create_embeddings_batch: the calls sent and the embeddings
\* collected from them
create_embeddings_batch(texts, batch_size) ==
    LET calls == Slices(texts, batch_size)
    IN  [calls |-> calls,
         embeddings |-> Flatten([k \in 1 .. Len(calls) |-> Embeddings(calls[k])])]

\* zip(a, b)
Zip(a, b) ==
    [k \in 1 .. (IF Len(a) < Len(b) THEN Len(a) ELSE Len(b)) |-> <<a[k], b[k]>>]

\* VectorService.upsert_documents_batch: embed the contents, pair each
\* document with an embedding, upsert the vectors batch by batch into the
\* tenant's namespace; the ids in input order, with the calls made
upsert_documents_batch(docs, tenant_id, batch_size) ==
    IF docs = <<>> THEN [ids |-> <<>>, embed_calls |-> <<>>, upserts |-> <<>>]
    ELSE LET contents == [k \in 1 .. Len(docs) |-> docs[k].content]
             embedded == create_embeddings_batch(contents, batch_size)
             pairs    == Zip(docs, embedded.embeddings)
             vecs     == [k \in 1 .. Len(pairs) |->
                             [id |-> pairs[k][1].id, values |-> pairs[k][2],
                              content |-> pairs[k][1].content]]
             batches  == Slices(vecs, batch_size)
         IN  [ids |-> [k \in 1 .. Len(pairs) |-> pairs[k][1].id],
              embed_calls |-> embedded.calls,
              upserts |-> [k \in 1 .. Len(batches) |->
                              [namespace |-> tenant_id, vectors |-> batches[k]]]]

\* the index after the first n of the upserts
Upserted(index, upserts, n) ==
    index \cup UNION {{<<upserts[k].namespace, upserts[k].vectors[j].id>> :
                           j \in 1 .. Len(upserts[k].vectors)} : k \in 1 .. n}

\* an index step that marks the documents it upserted as indexed
TaskIndex_MarksIndexed(i) ==
    LET t == tasks[i]
        out == upsert_documents_batch(
                   [k \in 1 .. Len(t.docs) |->
                       [id |-> t.docs[k], content |-> t.new_items[k].content]],
                   t.tenant_id, DefaultBatchSize)
        indexed == out.ids
        ids == {indexed[k] : k \in 1 .. Len(indexed)}
    IN
    /\ t.pc = "index"
    /\ vectors' = Upserted(vectors, out.upserts, Len(out.upserts))
    /\ documents' = {IF d.id \in ids
                       THEN Assign(d, [status |-> "indexed", is_indexed |-> TRUE,
                                       vector_id |-> d.id])
                       ELSE d : d \in documents}
    /\ tasks' = SetTask(i, [pc |-> "finish", indexed |-> indexed])
    /\ UNCHANGED <<connectors, progress, next_doc, reqs, poll, doc_op, messages, turn, sessions>>

\* run_sync_task: embed and upsert the created documents
TaskIndex(i) ==
    LET t == tasks[i]
        out == upsert_documents_batch(
                   [k \in 1 .. Len(t.docs) |->
                       [id |-> t.docs[k], content |-> t.new_items[k].content]],
                   t.tenant_id, DefaultBatchSize)
        indexed == out.ids
    IN
    /\ t.pc = "index"
    /\ vectors' = Upserted(vectors, out.upserts, Len(out.upserts))
    /\ tasks' = SetTask(i, [pc |-> "finish", indexed |-> indexed])
    /\ UNCHANGED <<connectors, progress, documents, next_doc, reqs, poll, doc_op, messages, turn, sessions>>

\* the columns of the progress record written by the final commit
Completed(t) ==
    IF t.new_items # <<>>
      THEN [indexed_items |-> Len(t.indexed), status |-> "completed",
            current_step |-> "Sync completed", completed_at |-> "now"]
      ELSE [status |-> "completed", current_step |-> "Sync completed",
            completed_at |-> "now"]

\* run_sync_task: mark the record and the connector completed and commit
TaskFinish(i) ==
    LET t == tasks[i] IN
    /\ t.pc = "finish"
    /\ progress' = SetProgress(t.connector_id, t.row, Completed(t))
    /\ connectors' = SetConnector(t.connector_id,
                         [sync_status |-> "completed", last_sync_at |-> "now"])
    /\ tasks' = SetTask(i, [pc |-> "done"])
    /\ UNCHANGED <<documents, next_doc, vectors, reqs, poll, doc_op, messages, turn, sessions>>

\* the steps of the try block that call a collaborator, which may raise
RaisingSteps == {"fetch", "dedup", "persist", "index"}

\* a collaborator call raises: nothing of the step is committed
TaskRaise(i) ==
    /\ tasks[i].pc \in RaisingSteps
    /\ tasks' = Raise(i, tasks[i].pc)
    /\ UNCHANGED <<connectors, progress, documents, next_doc, vectors, reqs, poll, doc_op, messages, turn, sessions>>

\* the columns the handler writes to the progress record
Failed(e) == [status |-> "failed", error_message |-> e, completed_at |-> "now"]

\* run_sync_task, except branch: select the progress record again
\* (scalar_one_or_none raises out of the task when there are several rows),
\* mark it and the connector failed, commit
TaskHandler(i) ==
    LET t == tasks[i]
        c == t.connector_id
    IN
    /\ t.pc = "handler"
    /\ IF Len(progress[c]) > 1
         THEN /\ tasks' = SetTask(i, [pc |-> "crashed"])
              /\ UNCHANGED <<progress, connectors>>
         ELSE /\ progress' = IF Len(progress[c]) = 1
                               THEN SetProgress(c, 1, Failed(t.err))
                               ELSE progress
              /\ connectors' = SetConnector(c, [sync_status |-> "failed",
                                                sync_error |-> t.err])
              /\ tasks' = SetTask(i, [pc |-> "done"])
    /\ UNCHANGED <<documents, next_doc, vectors, reqs, poll, doc_op, messages, turn, sessions>>

run_sync_task(i) ==
    \/ TaskStart(i)
    \/ \E items \in Batches : TaskFetch(i, items)
    \/ TaskDedup(i)
    \/ TaskPersist(i)
    \/ TaskIndex(i)
    \/ TaskFinish(i)
    \/ TaskRaise(i)
    \/ TaskHandler(i)

\* -------------------------------------------------------- get_sync_progress
\* percent = round(processed / total * 100, 1), in tenths of a percent
Percent(processed, total) ==
    IF total > 0 THEN (2000 * processed + total) \div (2 * total) ELSE 0

\* SyncProgressResponse of a progress record
SyncProgressResponse(p) ==
    [code |-> 200, status |-> p.status, total_items |-> p.total_items,
     processed_items |-> p.processed_items, indexed_items |-> p.indexed_items,
     failed_items |-> p.failed_items, current_step |-> p.current_step,
     error_message |-> p.error_message,
     percent |-> Percent(p.processed_items, p.total_items),
     started_at |-> p.started_at, completed_at |-> p.completed_at]

\* the response for a connector that has no progress record
IdleResponse ==
    [code |-> 200, status |-> "idle", total_items |-> 0, processed_items |-> 0,
     indexed_items |-> 0, failed_items |-> 0, current_step |-> None,
     error_message |-> None, percent |-> 0, started_at |-> None,
     completed_at |-> None]

\* get_sync_progress of tenant t for connector c: 404 without a connector of
\* the tenant, the idle response without a record, else the record
\* (scalar_one_or_none raises when there are several)
get_sync_progress(t, c) ==
    /\ poll' = (IF connectors[c].tenant_id # t THEN [code |-> 404]
                ELSE IF Len(progress[c]) > 1 THEN [code |-> 500]
                ELSE (IF progress[c] = <<>>
                        THEN IdleResponse
                        ELSE SyncProgressResponse(progress[c][1]))
                     @@ [connector_id |-> c, attempts |-> ActiveTasks(c)])
               @@ [tenant |-> t, asked |-> c]
    /\ UNCHANGED <<connectors, progress, documents, next_doc, vectors, reqs, tasks, doc_op, messages, turn, sessions>>

Next ==
    \/ \E r \in Requests, t \in Tenants, c \in ConnectorIds : StartSyncCall(r, t, c)
    \/ \E r \in Requests : start_sync(r)
    \/ \E i \in TaskIds : run_sync_task(i)

\* syncs of every connector, requested by every tenant
Spec == Init /\ [][Next]_vars

\* the connector a client polls
Polled == "c1"

NextPoll ==
    \/ \E r \in Requests, t \in Tenants : StartSyncCall(r, t, Polled)
    \/ \E r \in Requests : start_sync(r)
    \/ \E i \in TaskIds : run_sync_task(i)
    \/ \E t \in Tenants : get_sync_progress(t, Polled)

\* syncs of one connector with clients polling its progress
SpecPoll == Init /\ [][NextPoll]_vars

\* ------------------------------------------------ document bulk operations
\* the labels, projects and statuses requests carry
Labels == {"work"}
ProjectIds == {"p1"}
DocumentStatus == {"pending", "processing", "classified", "indexed", "failed"}

\* the statuses callers of bulk_update_status pass: 'pending' is the column
\* default and 'classified' is what bulk_classify_documents writes
StatusUpdates == {"processing", "indexed", "failed"}

\* the ids a request can name (ids of deleted documents included) and the
\* id lists of bulk requests
DocIds == 1 .. MaxDocs
IdLists == SeqsUpTo(DocIds, MaxIds)

\* the batch size the delete routes use
RouteBatchSize == 100

Range(s) == {s[k] : k \in DOMAIN s}
Min(a, b) == IF a < b THEN a ELSE b

\* the outcome of a bulk statement sequence: the table afterwards, the rows
\* affected, the statements issued
Outcome(docs, rowcount, writes) == [documents |-> docs, rowcount |-> rowcount, writes |-> writes]

\* UPDATE documents SET upd WHERE id IN document_ids
UpdateByIds(document_ids, upd) ==
    LET hit == {d \in documents : d.id \in Range(document_ids)}
    IN  Outcome({IF d \in hit THEN Assign(d, upd) ELSE d : d \in documents},
                Cardinality(hit), 1)

\* DocumentService.get_documents_by_ids: the rows of the tenant among the ids
get_documents_by_ids(document_ids, tenant_id) ==
    IF document_ids = <<>> THEN {}
    ELSE {d \in documents : d.id \in Range(document_ids) /\ d.tenant_id = tenant_id}

\* a classification that reports the length of the id list as its count
bulk_classify_documents_CountsIds(document_ids, classification) ==
    IF document_ids = <<>> THEN Outcome(documents, 0, 0)
    ELSE [UpdateByIds(document_ids,
                      [classification |-> classification, status |-> "classified"])
            EXCEPT !.rowcount = Len(document_ids)]

\* DocumentService.bulk_classify_documents
bulk_classify_documents(document_ids, classification) ==
    IF document_ids = <<>> THEN Outcome(documents, 0, 0)
    ELSE UpdateByIds(document_ids,
                     [classification |-> classification, status |-> "classified"])

\* the batches of bulk_delete_documents, one DELETE each, in list order
RECURSIVE DeleteBatches(_, _, _, _)
DeleteBatches(docs, document_ids, tenant_id, batch_size) ==
    IF document_ids = <<>>
    THEN [documents |-> docs, rowcount |-> 0, writes |-> 0, stmts |-> <<>>]
    ELSE LET n     == Min(batch_size, Len(document_ids))
             batch == SubSeq(document_ids, 1, n)
             hit   == {d \in docs : d.id \in Range(batch) /\ d.tenant_id = tenant_id}
             rest  == DeleteBatches(docs \ hit, SubSeq(document_ids, n + 1, Len(document_ids)),
                                    tenant_id, batch_size)
         IN  [documents |-> rest.documents,
              rowcount  |-> Cardinality(hit) + rest.rowcount,
              writes    |-> 1 + rest.writes,
              \* the statements issued: the ids of each and its rowcount
              stmts     |-> <<[ids |-> batch, rowcount |-> Cardinality(hit)]>> \o rest.stmts]

\* a delete that sends the whole id list in one statement
bulk_delete_documents_OneStatement(document_ids, tenant_id, batch_size) ==
    DeleteBatches(documents, document_ids, tenant_id, Len(document_ids) + 1)

\* DocumentService.bulk_delete_documents
bulk_delete_documents(document_ids, tenant_id, batch_size) ==
    DeleteBatches(documents, document_ids, tenant_id, batch_size)

\* DocumentService.bulk_update_status
bulk_update_status(document_ids, status) ==
    IF document_ids = <<>> THEN Outcome(documents, 0, 0)
    ELSE UpdateByIds(document_ids, [status |-> status])

\* DocumentService.bulk_assign_project
bulk_assign_project(document_ids, project_id) ==
    IF document_ids = <<>> THEN Outcome(documents, 0, 0)
    ELSE UpdateByIds(document_ids, [project_id |-> project_id])

\* what a document request leaves behind: the table and its answer
Answer(op, tenant, ids, code, out) ==
    /\ documents' = out.documents
    /\ doc_op' = [op |-> op, tenant |-> tenant, ids |-> ids, code |-> code,
                  count |-> out.rowcount, writes |-> out.writes]

\* POST /documents
create_document(t) ==
    LET doc == Document(next_doc + 1, t, None, [external_id |-> None, content |-> "v1"])
    IN
    /\ next_doc < MaxDocs
    /\ next_doc' = next_doc + 1
    /\ Answer("create", t, <<doc.id>>, 201, Outcome(documents \cup {doc}, 1, 1))
    /\ UNCHANGED <<connectors, progress, vectors, reqs, tasks, poll, messages, turn, sessions>>

\* DELETE /documents/{document_id}
delete_document(t, id) ==
    LET out == bulk_delete_documents(<<id>>, t, RouteBatchSize)
    IN
    /\ Answer("delete_one", t, <<id>>, IF out.rowcount = 0 THEN 404 ELSE 204, out)
    /\ UNCHANGED <<connectors, progress, next_doc, vectors, reqs, tasks, poll, messages, turn, sessions>>

\* POST /documents/bulk/classify
route_bulk_classify_documents(t, ids, label) ==
    LET docs == get_documents_by_ids(ids, t)
    IN
    /\ IF Cardinality(docs) # Len(ids)
       THEN Answer("classify", t, ids, 400, Outcome(documents, 0, 0))
       ELSE Answer("classify", t, ids, 200, bulk_classify_documents(ids, label))
    /\ UNCHANGED <<connectors, progress, next_doc, vectors, reqs, tasks, poll, messages, turn, sessions>>

\* POST /documents/bulk/delete
route_bulk_delete_documents(t, ids) ==
    /\ Answer("delete", t, ids, 200, bulk_delete_documents(ids, t, RouteBatchSize))
    /\ UNCHANGED <<connectors, progress, next_doc, vectors, reqs, tasks, poll, messages, turn, sessions>>

\* POST /documents/bulk/assign-project
route_bulk_assign_project(t, ids, project_id) ==
    /\ Answer("assign_project", t, ids, 200, bulk_assign_project(ids, project_id))
    /\ UNCHANGED <<connectors, progress, next_doc, vectors, reqs, tasks, poll, messages, turn, sessions>>

\* a caller acting for tenant t updates statuses through the service
call_bulk_update_status(t, ids, status) ==
    /\ Answer("update_status", t, ids, 200, bulk_update_status(ids, status))
    /\ UNCHANGED <<connectors, progress, next_doc, vectors, reqs, tasks, poll, messages, turn, sessions>>

NextDocs ==
    \/ \E t \in Tenants : create_document(t)
    \/ \E t \in Tenants, id \in DocIds : delete_document(t, id)
    \/ \E t \in Tenants, ids \in IdLists, label \in Labels :
           route_bulk_classify_documents(t, ids, label)
    \/ \E t \in Tenants, ids \in IdLists : route_bulk_delete_documents(t, ids)
    \/ \E t \in Tenants, ids \in IdLists, p \in ProjectIds :
           route_bulk_assign_project(t, ids, p)
    \/ \E t \in Tenants, ids \in IdLists, status \in StatusUpdates :
           call_bulk_update_status(t, ids, status)

\* documents of two tenants under create, delete and the bulk operations
SpecDocs == Init /\ [][NextDocs]_vars

\* ------------------------------------------- the document service, called
\* the id lists and batch sizes callers of the service pass
CallIdLists == SeqsUpTo(DocIds, MaxCallIds)
BatchSizes == 1 .. MaxBatchSize

\* COUNT / SUM(CASE ...) over the rows of the tenant
CountWhere(tenant_id, rows) ==
    Cardinality({d \in rows : d.tenant_id = tenant_id})

IsAny == documents
IsPending == {d \in documents : d.status = "pending"}
IsProcessing == {d \in documents : d.status = "processing"}
IsClassified == {d \in documents : d.status = "classified"}
IsIndexed == {d \in documents : d.status = "indexed"}
IsFailed == {d \in documents : d.status = "failed"}
InVectorDb == {d \in documents : d.is_indexed}

\* statistics whose total counts the documents of every tenant
get_document_stats_AllTenants(tenant_id) ==
    [total        |-> Cardinality(documents),
     pending      |-> CountWhere(tenant_id, IsPending),
     processing   |-> CountWhere(tenant_id, IsProcessing),
     classified   |-> CountWhere(tenant_id, IsClassified),
     indexed      |-> CountWhere(tenant_id, IsIndexed),
     failed       |-> CountWhere(tenant_id, IsFailed),
     in_vector_db |-> CountWhere(tenant_id, InVectorDb)]

\* DocumentService.get_document_stats
get_document_stats(tenant_id) ==
    [total        |-> CountWhere(tenant_id, IsAny),
     pending      |-> CountWhere(tenant_id, IsPending),
     processing   |-> CountWhere(tenant_id, IsProcessing),
     classified   |-> CountWhere(tenant_id, IsClassified),
     indexed      |-> CountWhere(tenant_id, IsIndexed),
     failed       |-> CountWhere(tenant_id, IsFailed),
     in_vector_db |-> CountWhere(tenant_id, InVectorDb)]

\* a caller classifies through the service
call_bulk_classify_documents(ids, label) ==
    LET out == bulk_classify_documents(ids, label)
    IN
    /\ documents' = out.documents
    /\ doc_op' = [op |-> "classify_call", tenant |-> None, ids |-> ids, code |-> 200,
                  count |-> out.rowcount, writes |-> out.writes, label |-> label]
    /\ UNCHANGED <<connectors, progress, next_doc, vectors, reqs, tasks, poll, messages, turn, sessions>>

\* a caller deletes through the service, with a batch size of its choice
call_bulk_delete_documents(t, ids, b) ==
    LET out == bulk_delete_documents(ids, t, b)
    IN
    /\ documents' = out.documents
    /\ doc_op' = [op |-> "delete_call", tenant |-> t, ids |-> ids, code |-> 200,
                  count |-> out.rowcount, writes |-> out.writes,
                  batch_size |-> b, stmts |-> out.stmts]
    /\ UNCHANGED <<connectors, progress, next_doc, vectors, reqs, tasks, poll, messages, turn, sessions>>

\* GET /documents/stats
route_get_document_stats(t) ==
    /\ doc_op' = [op |-> "stats", tenant |-> t, ids |-> <<>>, code |-> 200,
                  count |-> 0, writes |-> 0, stats |-> get_document_stats(t)]
    /\ UNCHANGED <<connectors, progress, documents, next_doc, vectors, reqs, tasks, poll, messages, turn, sessions>>

NextBulk ==
    \/ \E t \in Tenants : create_document(t)
    \/ \E ids \in IdLists, label \in Labels : call_bulk_classify_documents(ids, label)
    \/ \E t \in Tenants, ids \in IdLists, status \in StatusUpdates :
           call_bulk_update_status(t, ids, status)
    \/ \E t \in Tenants, ids \in CallIdLists, b \in BatchSizes :
           call_bulk_delete_documents(t, ids, b)
    \/ \E t \in Tenants : route_get_document_stats(t)

\* documents of two tenants under create, the service's bulk operations and
\* the statistics
SpecBulk == Init /\ [][NextBulk]_vars

\* ------------------------------------------------------------------- chat
\* the two ways a turn is answered
Modes == {"batch", "stream"}

\* texts, as sequences of characters: the chunks a streamed generation
\* yields and the response of a batch generation
Chunks == {<<"a">>, <<"b", "c">>}
Deltas == Chunks \cup {<<>>}
Responses == {<<"a", "b">>}

\* the limit chat and chat_stream pass to get_messages
HistoryLimit == 10

\* the top_k chat and chat_stream pass to VectorService.search
TopK == 5

\* the value of the JSON column sources: NULL, or a list of ids
Null == [null |-> TRUE, ids |-> <<>>]
Json(ids) == [null |-> FALSE, ids |-> ids]

\* ChatMessage(...): a row, its id standing for its creation time as well
ChatMessage(id, role, content, sources) ==
    [id |-> id, role |-> role, content |-> content, sources |-> sources]

\* ChatService.add_message: the table with the new row of the session
add_message(table, session_id, role, content, sources) ==
    [table EXCEPT ![session_id] =
        Append(@, ChatMessage(Len(@) + 1, role, content, sources))]

\* datetime.utcnow(): later than every time stored so far
Now ==
    LET times == {sessions[s].updated_at : s \in SessionIds}
    IN  1 + CHOOSE m \in times : \A x \in times : x <= m

\* add_message that leaves the session row as it is
Touch_Never(table, session_id) == table

\* ChatService.add_message: the session row, if there is one, gets
\* updated_at = utcnow()
Touch(table, session_id) ==
    IF table[session_id].exists
      THEN [table EXCEPT ![session_id].updated_at = Now]
      ELSE table

\* ChatService.get_sessions: the orders in which ORDER BY updated_at DESC
\* can return the tenant's sessions (rows of equal time in either order)
get_sessions(table, tenant_id) ==
    LET own == {s \in SessionIds : table[s].exists /\ SessionTenant(s) = tenant_id}
    IN  {q \in SeqsUpTo(own, Cardinality(own)) :
            /\ Len(q) = Cardinality(own)
            /\ \A k, l \in 1 .. Len(q) :
                   (k < l => (q[k] # q[l]
                              /\ table[q[k]].updated_at >= table[q[l]].updated_at))}

\* ChatService.get_messages: ORDER BY created_at ASC LIMIT limit
get_messages(table, session_id, limit) ==
    LET rows == table[session_id]
    IN  SubSeq(rows, 1, Min(limit, Len(rows)))

\* the ids of the vectors in the namespace of a tenant
Namespace(tenant_id) == {v[2] : v \in {w \in vectors : w[1] = tenant_id}}

IsInjective(q) == \A k, l \in DOMAIN q : q[k] = q[l] => k = l

\* a search that looks in every namespace
search_AnyNamespace(tenant_id, top_k) ==
    LET ns == {v[2] : v \in vectors}
        n  == Min(top_k, Cardinality(ns))
    IN  {q \in SeqsUpTo(ns, n) : Len(q) = n /\ IsInjective(q)}

\* VectorService.search: the results the index can return, the top_k
\* nearest vectors of the namespace in the order of their scores
search(tenant_id, top_k) ==
    LET ns == Namespace(tenant_id)
        n  == Min(top_k, Cardinality(ns))
    IN  {q \in SeqsUpTo(ns, n) : Len(q) = n /\ IsInjective(q)}

\* _build_context that opens every context with a heading part
_build_context_Heading(docs) ==
    <<[n |-> 0, doc |-> 0]>> \o [k \in 1 .. Len(docs) |-> [n |-> k, doc |-> docs[k]]]

\* ChatService._build_context: the empty text for no documents, else one
\* numbered part per document
_build_context(docs) ==
    IF docs = <<>> THEN <<>>
    ELSE [k \in 1 .. Len(docs) |-> [n |-> k, doc |-> docs[k]]]

\* the system message of generate_response and generate_response_stream:
\* the system prompt, and after it the context under its heading when the
\* context is not empty
SystemContent(context) ==
    IF context # <<>>
    THEN <<[text |-> "system_prompt", context |-> <<>>],
           [text |-> "Relevant context from user's documents:", context |-> context]>>
    ELSE <<[text |-> "system_prompt", context |-> <<>>]>>

\* source ids that are kept although a later turn retrieved others
SourceIds_Cumulative(docs) ==
    LET earlier == IF turn.session = None THEN <<>>
                   ELSE LET rows == messages[turn.session]
                            last == {k \in DOMAIN rows : rows[k].role = "assistant"}
                        IN  IF last = {} THEN <<>>
                            ELSE rows[CHOOSE k \in last : \A l \in last : l <= k].sources.ids
    IN  earlier \o docs

\* chat / chat_stream: the ids of the retrieved documents that have one
SourceIds(docs) ==
    LET HasId(id) == id # 0 IN SelectSeq(docs, HasId)

\* get_db that rolls the session back when the request fails
get_db_Discard(table, failed) ==
    IF failed
      THEN [table EXCEPT ![turn.session] = SubSeq(@, 1, turn.user_id - 1)]
      ELSE table

\* database.connection.get_db: what the session of a request leaves in the
\* table when the request ends, by a response or by an error
get_db(table, failed) == table

\* the turn ends: its request is over, with this status code
EndTurn(upd, code, failed, table) ==
    /\ turn' = Assign(Assign(turn, upd), [pc |-> "idle", code |-> code])
    /\ messages' = get_db(table, failed)

\* POST /chat/sessions/{id}/chat and .../chat/stream up to the search: 404
\* unless the session is the tenant's; store the user message, load the
\* history
ChatCall(t, s, mode) ==
    LET stored == add_message(messages, s, "user", <<"q">>, Null)
    IN
    /\ turn.pc = "idle"
    /\ turn.n < MaxTurns
    /\ IF ~sessions[s].exists \/ SessionTenant(s) # t
         THEN /\ turn' = [NoTurn EXCEPT !.n = turn.n + 1, !.mode = mode, !.tenant = t,
                                        !.session = s, !.code = 404]
              /\ UNCHANGED <<messages, sessions>>
         ELSE /\ messages' = stored
              /\ sessions' = Touch(sessions, s)
              /\ turn' = [NoTurn EXCEPT !.pc = "search", !.n = turn.n + 1, !.mode = mode,
                                        !.tenant = t, !.session = s,
                                        !.user_id = Len(stored[s]),
                                        !.history = get_messages(stored, s, HistoryLimit)]
    /\ UNCHANGED <<connectors, progress, documents, next_doc, vectors, reqs, tasks, poll, doc_op>>

\* the search returns: build the context and the system message
ChatSearch ==
    /\ turn.pc = "search"
    /\ \E docs \in search(turn.tenant, TopK) :
           turn' = Assign(turn, [pc |-> IF turn.mode = "batch" THEN "generate" ELSE "stream",
                                 docs |-> docs,
                                 context |-> _build_context(docs),
                                 system |-> SystemContent(_build_context(docs))])
    /\ UNCHANGED <<connectors, progress, documents, next_doc, vectors, reqs, tasks, poll,
                   doc_op, messages, sessions>>

\* the search raises
ChatSearchRaise ==
    /\ turn.pc = "search"
    /\ EndTurn([raised |-> "search"], 500, TRUE, messages)
    /\ UNCHANGED <<connectors, progress, documents, next_doc, vectors, reqs, tasks, poll, doc_op, sessions>>

\* chat: the generation returns; store the assistant message, answer
ChatGenerate(response) ==
    LET stored == add_message(messages, turn.session, "assistant", response,
                              Json(SourceIds(turn.docs)))
    IN
    /\ turn.pc = "generate"
    /\ EndTurn([full_response |-> response, message_id |-> Len(stored[turn.session])],
               200, FALSE, stored)
    /\ sessions' = Touch(sessions, turn.session)
    /\ UNCHANGED <<connectors, progress, documents, next_doc, vectors, reqs, tasks, poll, doc_op>>

\* the generation raises, in chat (the request fails) or while chat_stream
\* is being consumed (the response, begun with 200, breaks off)
ChatGenerateRaise ==
    /\ turn.pc \in {"generate", "stream"}
    /\ EndTurn([raised |-> "generate"], IF turn.mode = "batch" THEN 500 ELSE 200, TRUE, messages)
    /\ UNCHANGED <<connectors, progress, documents, next_doc, vectors, reqs, tasks, poll, doc_op, sessions>>

\* chat_stream keeping only the newest chunk as the response
Accumulate_Newest(full_response, chunk) == chunk

\* chat_stream: full_response += chunk
Accumulate(full_response, chunk) == full_response \o chunk

\* generate_response_stream: the deltas that are yielded, those with content
Yielded(deltas) ==
    LET HasContent(delta) == delta # <<>> IN SelectSeq(deltas, HasContent)

\* chat_stream: the consumer asks for the next chunk and the completion
\* sends a delta; one with content is yielded by generate_response_stream,
\* added to full_response and forwarded
StreamChunk(delta) ==
    /\ turn.pc = "stream"
    /\ Len(turn.arrived) < MaxChunks
    /\ turn' = Assign(turn, [arrived |-> Append(turn.arrived, delta),
                             chunks |-> turn.chunks \o Yielded(<<delta>>),
                             full_response |-> IF Yielded(<<delta>>) = <<>>
                                                 THEN turn.full_response
                                                 ELSE Accumulate(turn.full_response, delta)])
    /\ UNCHANGED <<connectors, progress, documents, next_doc, vectors, reqs, tasks, poll,
                   doc_op, messages, sessions>>

\* a stream end that sends [DONE] and leaves the assistant message unstored
StreamEnd_DoneOnly ==
    /\ turn.pc = "stream"
    /\ EndTurn([done |-> TRUE], 200, FALSE, messages)
    /\ UNCHANGED <<connectors, progress, documents, next_doc, vectors, reqs, tasks, poll, doc_op, sessions>>

\* chat_stream: the consumer asks for the next chunk and the generation has
\* ended; store the assistant message; the route then sends [DONE]
StreamEnd ==
    LET stored == add_message(messages, turn.session, "assistant", turn.full_response,
                              Json(SourceIds(turn.docs)))
    IN
    /\ turn.pc = "stream"
    /\ EndTurn([message_id |-> Len(stored[turn.session]), done |-> TRUE], 200, FALSE, stored)
    /\ sessions' = Touch(sessions, turn.session)
    /\ UNCHANGED <<connectors, progress, documents, next_doc, vectors, reqs, tasks, poll, doc_op>>

\* the client goes away: the response stops iterating generate(), so the
\* generator chat_stream stays where it is and is closed there
ClientStops ==
    /\ turn.pc = "stream"
    /\ EndTurn([stopped |-> TRUE], 200, FALSE, messages)
    /\ UNCHANGED <<connectors, progress, documents, next_doc, vectors, reqs, tasks, poll, doc_op, sessions>>

\* a chat turn once the request is in
chat ==
    \/ ChatSearch
    \/ ChatSearchRaise
    \/ \E response \in Responses : ChatGenerate(response)
    \/ ChatGenerateRaise
    \/ \E delta \in Deltas : StreamChunk(delta)
    \/ StreamEnd
    \/ ClientStops

\* the connectors synced and the batches their sources return in SpecChat
ChatConnectors == {"c1", "c2"}
ChatBatches == {b \in Batches : Len(b) = 2 /\ b[1].external_id = "e1" /\ b[2].external_id = "e2"}

\* one start_sync at a time, tasks that do not fail, and chat turns
NextChat ==
    \/ \E t \in Tenants, c \in ChatConnectors : StartSyncCall(1, t, c)
    \/ start_sync(1)
    \/ \E i \in TaskIds :
           \/ TaskStart(i)
           \/ \E items \in ChatBatches : TaskFetch(i, items)
           \/ TaskDedup(i)
           \/ TaskPersist(i)
           \/ TaskIndex(i)
           \/ TaskFinish(i)
    \/ \E t \in Tenants, s \in ChatSessions, mode \in Modes : ChatCall(t, s, mode)
    \/ chat

\* syncs that fill the index and chat turns that query it
SpecChat == Init /\ [][NextChat]_vars

\* a session after `n` answered batch turns over an empty index
RECURSIVE AnsweredTurns(_)
AnsweredTurns(n) ==
    IF n = 0 THEN <<>>
    ELSE LET rows == AnsweredTurns(n - 1)
         IN  rows \o <<ChatMessage(Len(rows) + 1, "user", <<"q">>, Null),
                       ChatMessage(Len(rows) + 2, "assistant", <<"a", "b">>, Json(<<>>))>>

\* the tables when session s1 already holds up to MaxPrior answered turns
InitHistory ==
    /\ InitSync
    /\ \E n \in 0 .. MaxPrior :
           /\ messages = [s \in SessionIds |-> IF s = "s1" THEN AnsweredTurns(n) ELSE <<>>]
           /\ sessions = [s \in SessionIds |->
                             IF s = "s1" THEN [ChatSession(0) EXCEPT !.updated_at = 2 * n]
                             ELSE IF s \in ChatSessions THEN ChatSession(0) ELSE NoSession]
    /\ turn = NoTurn

\* chat turns alone
NextHistory ==
    \/ \E t \in Tenants, s \in ChatSessions, mode \in Modes : ChatCall(t, s, mode)
    \/ chat

\* chat turns in sessions that have a history
SpecHistory == InitHistory /\ [][NextHistory]_vars

\* every route that looks its connector or session up under the tenant:
\* syncs and polls of one connector, chat turns of both sessions
NextRequests ==
    \/ \E t \in Tenants : StartSyncCall(1, t, Polled)
    \/ start_sync(1)
    \/ \E i \in TaskIds :
           \/ TaskStart(i)
           \/ \E items \in ChatBatches : TaskFetch(i, items)
           \/ TaskDedup(i)
           \/ TaskPersist(i)
           \/ TaskIndex(i)
           \/ TaskFinish(i)
    \/ \E t \in Tenants : get_sync_progress(t, Polled)
    \/ \E t \in Tenants, s \in ChatSessions, mode \in Modes : ChatCall(t, s, mode)
    \/ chat

\* requests of both tenants for a connector and for sessions
SpecRequests == Init /\ [][NextRequests]_vars

\* the documents a caller of upsert_documents_batch passes
CallDocs == {[id |-> 1, content |-> "v1"], [id |-> 2, content |-> "v2"]}
CallDocLists == SeqsUpTo(CallDocs, MaxCallIds)

\* the direct calls of upsert_documents_batch made so far
Calls == IF doc_op = NoOp THEN 0 ELSE doc_op.calls

\* a caller indexes documents through the service, with a batch size of
\* its choice
call_upsert_documents_batch(docs, t, b) ==
    LET out == upsert_documents_batch(docs, t, b)
    IN
    /\ Calls < MaxCalls
    /\ vectors' = Upserted(vectors, out.upserts, Len(out.upserts))
    /\ doc_op' = [op |-> "upsert_call", tenant |-> t, docs |-> docs, batch_size |-> b,
                  code |-> 200, calls |-> Calls + 1, ids |-> out.ids, embed_calls |-> out.embed_calls,
                  upserts |-> out.upserts]
    /\ UNCHANGED <<connectors, progress, documents, next_doc, reqs, tasks, poll, messages, turn, sessions>>

\* the call raises: in an embedding call (nothing was upserted yet), or in
\* the upsert that follows n upserts that went through
call_upsert_documents_batch_raises(docs, t, b, n) ==
    LET out == upsert_documents_batch(docs, t, b)
    IN
    /\ Calls < MaxCalls
    /\ n < Len(out.upserts)
    /\ vectors' = Upserted(vectors, out.upserts, n)
    /\ doc_op' = [op |-> "upsert_call", tenant |-> t, docs |-> docs, batch_size |-> b,
                  code |-> 500, calls |-> Calls + 1, ids |-> <<>>, embed_calls |-> out.embed_calls,
                  upserts |-> SubSeq(out.upserts, 1, n)]
    /\ UNCHANGED <<connectors, progress, documents, next_doc, reqs, tasks, poll, messages, turn, sessions>>

\* syncs of one connector, and callers of upsert_documents_batch
NextIndex ==
    \/ \E t \in Tenants : StartSyncCall(1, t, Polled)
    \/ start_sync(1)
    \/ \E i \in TaskIds :
           \/ TaskStart(i)
           \/ \E items \in Batches : TaskFetch(i, items)
           \/ TaskDedup(i)
           \/ TaskPersist(i)
           \/ TaskIndex(i)
           \/ TaskFinish(i)
    \/ \E docs \in CallDocLists, t \in Tenants, b \in BatchSizes :
           \/ call_upsert_documents_batch(docs, t, b)
           \/ \E n \in 0 .. MaxCallIds : call_upsert_documents_batch_raises(docs, t, b, n)

\* the vector index under syncs and direct batch upserts
SpecIndex == Init /\ [][NextIndex]_vars

\* POST /chat/sessions: a new session of the tenant
create_session(t, s) ==
    /\ ~sessions[s].exists
    /\ SessionTenant(s) = t
    /\ sessions' = [sessions EXCEPT ![s] = ChatSession(Now)]
    /\ UNCHANGED <<connectors, progress, documents, next_doc, vectors, reqs, tasks, poll,
                   doc_op, messages, turn>>

\* sessions are created and chat turns run in every session
NextSessions ==
    \/ \E t \in Tenants, s \in SessionIds : create_session(t, s)
    \/ \E t \in Tenants, s \in SessionIds, mode \in Modes : ChatCall(t, s, mode)
    \/ chat

\* a tenant with several sessions
SpecSessions == Init /\ [][NextSessions]_vars

\* ================================================================== claims
RowOf(t) == progress[t.connector_id][t.row]

\* the task has begun to execute and has not ended
Running(t) == t.pc \in {"fetch", "dedup", "persist", "index", "finish", "handler"}

\* C1: for every connector, at most one execution of run_sync_task is
\* active at any time, under any interleaving of start_sync requests and
\* background tasks.
C1_OneActiveSync ==
    \A c \in ConnectorIds :
        Cardinality({i \in TaskIds : tasks[i].connector_id = c /\ Running(tasks[i])}) <= 1

\* request r answers in this step
Answers(r) == reqs[r].pc # "idle" /\ reqs'[r].pc = "idle"

\* C2: a start_sync on a connector whose sync_status is 'syncing' is answered
\* with the "Sync already in progress" error, schedules no task and leaves
\* Connector and SyncProgress unchanged; on a connector that is idle,
\* completed or failed it succeeds, sets sync_status to 'syncing' and
\* schedules exactly one task.
C2_StartSyncGuard ==
    [][\A r \in Requests :
          LET c == reqs[r].connector_id
              \* the sync_status the request read
              read == IF reqs[r].pc = "check" THEN connectors[c].sync_status
                      ELSE reqs[r].seen
          IN
          (Answers(r) /\ connectors[c].tenant_id = reqs[r].tenant) =>
              IF read = "syncing"
                THEN /\ reqs'[r].resp = 400
                     /\ tasks' = tasks
                     /\ connectors' = connectors
                     /\ progress' = progress
                ELSE /\ reqs'[r].resp = 200
                     /\ connectors'[c].sync_status = "syncing"
                     /\ Len(tasks') = Len(tasks) + 1
                     /\ tasks'[Len(tasks')].connector_id = c]_vars

\* C3: once the background tasks of a connector have ended (by any path,
\* the unknown connector type included), Connector.sync_status and
\* SyncProgress.status are equal and are 'completed' or 'failed'.
C3_EndedNotSyncing ==
    \A c \in ConnectorIds :
        ((\E i \in TaskIds : tasks[i].connector_id = c) /\ ActiveTasks(c) = {}) =>
            /\ connectors[c].sync_status \in {"completed", "failed"}
            /\ \A k \in 1 .. Len(progress[c]) :
                   progress[c][k].status = connectors[c].sync_status

\* C4: a task in which fetch, dedup, bulk persist or embed/index raised ends
\* with SyncProgress.status = 'failed', error_message the exception text,
\* completed_at set, Connector.sync_status = 'failed' and sync_error set.
C4_FailureRecorded ==
    [][\A i \in TaskIds :
          (tasks[i].err \in RaisingSteps /\ ~Ended(tasks[i]) /\ Ended(tasks'[i])) =>
              LET c == tasks[i].connector_id
                  p == progress'[c][tasks[i].row]
              IN  /\ p.status = "failed"
                  /\ p.error_message = tasks[i].err
                  /\ p.completed_at # None
                  /\ connectors'[c].sync_status = "failed"
                  /\ connectors'[c].sync_error = tasks[i].err]_vars

\* every item has an external id and no two items share one
DistinctIds(items) ==
    /\ \A k \in 1 .. Len(items) : items[k].external_id # None
    /\ \A k, l \in 1 .. Len(items) :
           items[k].external_id = items[l].external_id => k = l

\* the task commits its last step, without any failure, in this step
Completes(i) == tasks[i].pc = "finish" /\ tasks'[i].pc = "done"

\* task j ran to completion before task i was scheduled, on the same
\* connector and with the same fetched batch
FirstRunOf(j, i) ==
    /\ j \in tasks[i].after
    /\ tasks[j].connector_id = tasks[i].connector_id
    /\ tasks[j].pc = "done" /\ tasks[j].err = None
    /\ tasks[j].items = tasks[i].items

\* C5: a sync of N items with distinct external ids against a connector
\* without documents, with no upstream failure, ends with total_items,
\* processed_items and indexed_items all N, both statuses 'completed' and
\* last_sync_at set; a second sync of the same items ends with
\* processed_items = 0 and status 'completed'.
C5_EndToEnd ==
    [][\A i \in TaskIds :
          (Completes(i) /\ DistinctIds(tasks[i].items)) =>
              LET c == tasks[i].connector_id
                  p == progress'[c][tasks[i].row]
                  N == Len(tasks[i].items)
              IN  /\ ~tasks[i].prior_docs =>
                        /\ p.total_items = N
                        /\ p.processed_items = N
                        /\ p.indexed_items = N
                        /\ p.status = "completed"
                        /\ connectors'[c].sync_status = "completed"
                        /\ connectors'[c].last_sync_at # None
                  /\ (\E j \in TaskIds : FirstRunOf(j, i)) =>
                        /\ p.processed_items = 0
                        /\ p.status = "completed"]_vars

\* every item of the batch has an external id
AllHaveIds(items) == \A k \in 1 .. Len(items) : items[k].external_id # None

\* the task ran to its final commit
Succeeded(t) == t.pc = "done" /\ t.err = None /\ get_connector_class(t.connector_type) # None

\* the two tasks synced the same connector and fetched the same batch
SameSource(i, j) ==
    /\ tasks[i].connector_id = tasks[j].connector_id
    /\ tasks[i].items = tasks[j].items

\* C6: of two syncs of a connector that fetched the same batch, all of
\* whose items carry external ids, only one creates documents: the second
\* run leaves the number of Documents of the connector unchanged.
C6_SecondRunCreatesNothing ==
    \A i, j \in TaskIds :
        (/\ i # j
         /\ Succeeded(tasks[i]) /\ Succeeded(tasks[j])
         /\ SameSource(i, j)
         /\ AllHaveIds(tasks[i].items))
        => (tasks[i].docs = <<>> \/ tasks[j].docs = <<>>)

\* C7: no two Documents of one connector have the same non-null external id.
C7_ExternalIdUnique ==
    \A d, e \in documents :
        (d.connector_id = e.connector_id /\ d.external_id # None
         /\ d.external_id = e.external_id) => d.id = e.id

\* C8: after a successful start_sync the progress record it wrote has status
\* 'syncing', all four counters 0, no error message, no completed_at,
\* started_at set and the starting step label.
C8_ProgressReset ==
    [][\A r \in Requests :
          (reqs[r].pc = "write" /\ reqs'[r].resp = 200) =>
              LET c == reqs[r].connector_id
                  k == IF reqs[r].row = 0 THEN Len(progress'[c]) ELSE reqs[r].row
              IN  progress'[c][k] =
                      [status |-> "syncing", total_items |-> 0, processed_items |-> 0,
                       indexed_items |-> 0, failed_items |-> 0,
                       current_step |-> "Starting sync...", error_message |-> None,
                       started_at |-> "now", completed_at |-> None]]_vars

\* a sync was started again on a connector whose previous attempt failed,
\* over the record that attempt left
C8_Witness ==
    \E i \in TaskIds :
        /\ tasks[i].pc = "start"
        /\ \E j \in tasks[i].after :
               /\ tasks[j].connector_id = tasks[i].connector_id
               /\ tasks[j].err \in RaisingSteps
        /\ Len(progress[tasks[i].connector_id]) = 1
        /\ progress[tasks[i].connector_id][1].status = "syncing"

\* C9: of two successive progress reads taken within one sync attempt
\* (after its start_sync, before its task ended), the later reports no
\* smaller processed_items and indexed_items.
C9_ProgressMonotone ==
    [][(/\ poll.code = 200 /\ poll'.code = 200
        /\ poll.attempts \cap poll'.attempts # {})
       => /\ poll'.processed_items >= poll.processed_items
          /\ poll'.indexed_items >= poll.indexed_items]_vars

\* the bulk operations on documents
BulkOps == {"classify", "assign_project", "update_status", "delete"}

\* C10: a bulk operation performed for tenant T never modifies or deletes
\* a document of another tenant, whatever ids its list names.
C10_BulkOpsTenantScoped ==
    [][doc_op'.op \in BulkOps =>
          \A d \in documents :
              d.tenant_id # doc_op'.tenant => d \in documents']_vars

\* the routes that apply the tenant predicate leave other tenants'
\* documents alone
Scoped_ClassifyAndDelete ==
    [][doc_op'.op \in {"classify", "delete", "delete_one"} =>
          \A d \in documents :
              d.tenant_id # doc_op'.tenant => d \in documents']_vars

\* ------------------------------------------ syncs that do not overlap
\* every other sync of task i's connector had ended when i was scheduled
\* (and none was scheduled since)
Isolated(i) ==
    \A j \in TaskIds \ {i} :
        tasks[j].connector_id = tasks[i].connector_id => j \in tasks[i].after

\* a task that ran alone records the failure of any of its steps
Isolated_FailureRecorded ==
    [][\A i \in TaskIds :
          (tasks[i].err \in RaisingSteps /\ ~Ended(tasks[i]) /\ Ended(tasks'[i])
           /\ Isolated(i)) =>
              LET c == tasks[i].connector_id
                  p == progress'[c][tasks[i].row]
              IN  /\ p.status = "failed"
                  /\ p.error_message = tasks[i].err
                  /\ p.completed_at # None
                  /\ connectors'[c].sync_status = "failed"
                  /\ connectors'[c].sync_error = tasks[i].err]_vars

\* a task that ran alone ends with the counters of its own batch
Isolated_EndToEnd ==
    [][\A i \in TaskIds :
          (Completes(i) /\ DistinctIds(tasks[i].items) /\ Isolated(i)) =>
              LET c == tasks[i].connector_id
                  p == progress'[c][tasks[i].row]
                  N == Len(tasks[i].items)
              IN  /\ ~tasks[i].prior_docs =>
                        /\ p.total_items = N
                        /\ p.processed_items = N
                        /\ p.indexed_items = N
                        /\ p.status = "completed"
                        /\ connectors'[c].sync_status = "completed"
                        /\ connectors'[c].last_sync_at # None
                  /\ (\E j \in TaskIds : FirstRunOf(j, i)) =>
                        /\ p.processed_items = 0
                        /\ p.status = "completed"]_vars

\* a sync scheduled after a completed sync of the same batch creates nothing
Isolated_SecondRunCreatesNothing ==
    \A i, j \in TaskIds :
        (/\ j \in tasks[i].after
         /\ Succeeded(tasks[i]) /\ Succeeded(tasks[j])
         /\ SameSource(i, j)
         /\ AllHaveIds(tasks[i].items))
        => tasks[i].docs = <<>>

\* reads within an attempt that ran alone never go back
Isolated_ProgressMonotone ==
    [][(/\ poll.code = 200 /\ poll'.code = 200
        /\ \E i \in poll.attempts \cap poll'.attempts : Isolated(i))
       => /\ poll'.processed_items >= poll.processed_items
          /\ poll'.indexed_items >= poll.indexed_items]_vars

\* ------------------------------------------------ the document service
\* C11: bulk_classify_documents(ids, label) returns the number of Documents
\* whose id is in ids, sets exactly those to status 'classified' with the
\* label, leaves every other Document as it was, and for an empty list
\* returns 0 without a write.
C11_BulkClassify ==
    [][doc_op'.op = "classify_call" =>
          LET ids == doc_op'.ids
              hit == {d \in documents : d.id \in Range(ids)}
          IN  /\ doc_op'.count = Cardinality(hit)
              /\ documents' =
                     (documents \ hit) \cup
                     {[d EXCEPT !.status = "classified",
                                !.classification = doc_op'.label] : d \in hit}
              /\ ids = <<>> => doc_op'.count = 0 /\ doc_op'.writes = 0]_vars

\* a call classified one document out of a list that also names a missing id
C11_Witness ==
    /\ doc_op.op = "classify_call"
    /\ Len(doc_op.ids) = 2
    /\ doc_op.count = 1
    /\ \E d \in documents : d.status = "classified" /\ d.id \in Range(doc_op.ids)
    /\ \E d \in documents : d.status # "classified"

RECURSIVE SumRowcounts(_)
SumRowcounts(stmts) ==
    IF stmts = <<>> THEN 0 ELSE stmts[1].rowcount + SumRowcounts(Tail(stmts))

\* C12: bulk_delete_documents on N ids with batch size B issues ceil(N/B)
\* deletes over consecutive chunks of at most B ids, returns the sum of the
\* chunks' rowcounts, and goes on after a chunk that deleted nothing.
C12_BulkDeleteBatches ==
    [][doc_op'.op = "delete_call" =>
          LET ids == doc_op'.ids
              N   == Len(ids)
              B   == doc_op'.batch_size
              s   == doc_op'.stmts
          IN  /\ Len(s) = (N + B - 1) \div B
              /\ doc_op'.writes = Len(s)
              /\ \A k \in 1 .. Len(s) :
                     s[k].ids = SubSeq(ids, (k - 1) * B + 1, Min(k * B, N))
              /\ doc_op'.count = SumRowcounts(s)
              /\ doc_op'.count = Cardinality(documents) - Cardinality(documents')
              /\ documents' = {d \in documents :
                                  ~(d.id \in Range(ids) /\ d.tenant_id = doc_op'.tenant)}]_vars

\* a call of three ids in batches of two whose first chunk deleted nothing
\* and whose second chunk deleted a document
C12_Witness ==
    /\ doc_op.op = "delete_call"
    /\ Len(doc_op.ids) = 3
    /\ doc_op.batch_size = 2
    /\ Len(doc_op.stmts) = 2
    /\ doc_op.stmts[1].rowcount = 0
    /\ doc_op.stmts[2].rowcount = 1

\* C13: the total of get_document_stats(tenant) is the sum of its five
\* status buckets and is the number of that tenant's documents.
C13_StatsTotal ==
    doc_op.op = "stats" =>
        LET st == doc_op.stats IN
        /\ st.total = st.pending + st.processing + st.classified + st.indexed + st.failed
        /\ st.total = Cardinality({d \in documents : d.tenant_id = doc_op.tenant})

\* statistics of a tenant with one failed document while another tenant has
\* a document in another status
C13_Witness ==
    /\ doc_op.op = "stats"
    /\ doc_op.stats.total = 1
    /\ doc_op.stats.failed = 1
    /\ \E d \in documents : d.tenant_id # doc_op.tenant /\ d.status = "classified"
\* C14: when the vector search or the generation of a chat turn fails, batch
\* or streamed, the turn ends with an error (a failed request, or a stream
\* that breaks off before its end), no assistant message is stored for it,
\* and the user message it stored stays the last row of the session
C14_FailedTurn ==
    (turn.pc = "idle" /\ turn.raised # None) =>
        LET rows == messages[turn.session]
        IN  /\ IF turn.mode = "batch" THEN turn.code = 500 ELSE ~turn.done
            /\ turn.message_id = 0
            /\ Len(rows) = turn.user_id
            /\ rows[turn.user_id].role = "user"
            /\ \A k \in 1 .. Len(rows) :
                   rows[k].role = "assistant" => k < turn.user_id

\* a streamed turn whose generation failed after a chunk was forwarded, in a
\* session that already holds an answered turn
C14_Witness ==
    /\ turn.pc = "idle"
    /\ turn.raised = "generate"
    /\ turn.mode = "stream"
    /\ turn.chunks # <<>>
    /\ turn.user_id = 3
    /\ messages[turn.session][2].role = "assistant"

\* the newest `limit` rows of a table, oldest first
Newest(rows, limit) ==
    SubSeq(rows, Len(rows) - Min(limit, Len(rows)) + 1, Len(rows))

\* C15: the history a turn passes to the generation is the last 10 messages
\* of the session, oldest first, and its final element is the user message
\* the turn stored at its start
C15_HistoryLastTen ==
    turn.pc \in {"search", "generate", "stream"} =>
        /\ turn.history = Newest(messages[turn.session], HistoryLimit)
        /\ turn.history # <<>>
        /\ turn.history[Len(turn.history)].id = turn.user_id
        /\ turn.history[Len(turn.history)].role = "user"

\* in sessions of at most 10 rows the history is the whole session and ends
\* with the turn's user message
Short_HistoryLastTen ==
    (turn.pc \in {"search", "generate", "stream"}
        /\ Len(messages[turn.session]) <= HistoryLimit) =>
        /\ turn.history = messages[turn.session]
        /\ turn.history[Len(turn.history)].id = turn.user_id

\* the step stores the assistant message of the turn in flight
StoresAnswer ==
    /\ turn.pc \in {"generate", "stream"}
    /\ Len(messages'[turn.session]) = Len(messages[turn.session]) + 1

\* the row a StoresAnswer step appends
StoredAnswer == messages'[turn.session][Len(messages'[turn.session])]

\* C16: the sources stored on an assistant message are, in order, the ids of
\* the documents this turn's vector query returned; what an earlier turn of
\* the session retrieved is not carried over
C16_SourcesOfThisTurn ==
    [][StoresAnswer =>
          /\ StoredAnswer.role = "assistant"
          /\ StoredAnswer.sources = Json(turn.docs)
          /\ SubSeq(messages'[turn.session], 1, Len(messages[turn.session]))
                 = messages[turn.session]]_vars

\* the second answer of a session cites two documents in the order opposite
\* to the one its first answer cites them in
C16_Witness ==
    /\ turn.pc = "idle"
    /\ turn.message_id = 4
    /\ messages[turn.session][2].sources = Json(<<1, 2>>)
    /\ messages[turn.session][4].sources = Json(<<2, 1>>)
    /\ turn.docs = <<2, 1>>

RECURSIVE Concat(_)
Concat(chunks) ==
    IF chunks = <<>> THEN <<>> ELSE Head(chunks) \o Concat(Tail(chunks))

\* C17: a streamed turn consumed to its end forwards the chunks in the
\* order they arrive, and then stores exactly one new assistant message,
\* whose content is the concatenation of the forwarded chunks and whose
\* sources are the ids retrieved in this turn
C17_StreamedTurn ==
    [][/\ turn.pc = "stream" =>
            /\ turn.chunks = Yielded(turn.arrived)
            /\ SubSeq(turn'.chunks, 1, Len(turn.chunks)) = turn.chunks
       /\ (turn.pc = "stream" /\ turn'.done) =>
            LET rows == messages'[turn.session]
            IN  /\ turn'.chunks = turn.chunks
                /\ Len(rows) = turn.user_id + 1
                /\ SubSeq(rows, 1, turn.user_id) = messages[turn.session]
                /\ rows[turn.user_id + 1] =
                       ChatMessage(turn.user_id + 1, "assistant", Concat(turn.chunks),
                                   Json(turn.docs))]_vars

\* a stream of two different chunks ended, over two retrieved documents
C17_Witness ==
    /\ turn.pc = "idle"
    /\ turn.done
    /\ turn.chunks = << <<"b", "c">>, <<"a">> >>
    /\ Len(turn.docs) = 2
    /\ messages[turn.session][turn.message_id].content = <<"b", "c", "a">>

\* C18: when the client of a streamed turn stops consuming before the
\* stream ends, the assistant message of the turn is stored all the same
C18_StoppedClientStillStored ==
    (turn.pc = "idle" /\ turn.stopped) =>
        LET rows == messages[turn.session]
        IN  /\ Len(rows) = turn.user_id + 1
            /\ rows[turn.user_id + 1].role = "assistant"

\* a streamed turn consumed to its end always leaves its assistant message
Consumed_StillStored ==
    (turn.pc = "idle" /\ turn.done) =>
        LET rows == messages[turn.session]
        IN  /\ Len(rows) = turn.user_id + 1
            /\ rows[turn.user_id + 1].role = "assistant"

\* the turn in flight or just ended has run its vector query
Searched == turn.system # <<>>

\* C19: when the vector query returns no documents the context is the empty
\* text and nothing is appended to the system prompt; the turn is not failed
\* by it, and a turn that ends normally returns and stores empty sources
C19_EmptyRetrieval ==
    (Searched /\ turn.docs = <<>>) =>
        /\ turn.context = <<>>
        /\ turn.system = <<[text |-> "system_prompt", context |-> <<>>]>>
        /\ (turn.pc = "idle" /\ turn.raised = None /\ ~turn.stopped) =>
               /\ turn.code = 200
               /\ turn.message_id = turn.user_id + 1
               /\ messages[turn.session][turn.message_id].role = "assistant"
               /\ messages[turn.session][turn.message_id].sources = Json(<<>>)

\* a batch turn answered with no sources while the other tenant's namespace
\* holds vectors
C19_Witness ==
    /\ turn.pc = "idle"
    /\ turn.mode = "batch"
    /\ turn.code = 200
    /\ turn.docs = <<>>
    /\ turn.system = <<[text |-> "system_prompt", context |-> <<>>]>>
    /\ messages[turn.session][turn.message_id].sources = Json(<<>>)
    /\ \E t \in Tenants \ {turn.tenant} : Namespace(t) # {}

\* the tenant whose sync created the document with this id, if one did
OwnersOf(id) == {d.tenant_id : d \in {e \in documents : e.id = id}}

\* C20: a sync writes vectors only into the namespace of the tenant that
\* owns its connector; a chat turn queries only the namespace of the tenant
\* that asked; the sources of a tenant's chat never hold a document another
\* tenant synced
C20_TenantIsolation ==
    /\ \A v \in vectors :
           \E d \in documents :
               /\ d.id = v[2]
               /\ d.tenant_id = v[1]
               /\ connectors[d.connector_id].tenant_id = v[1]
    /\ turn.pc # "idle" => turn.tenant = SessionTenant(turn.session)
    /\ \A k \in 1 .. Len(turn.docs) : OwnersOf(turn.docs[k]) = {turn.tenant}
    /\ \A s \in ChatSessions :
           \A k \in 1 .. Len(messages[s]) :
               \A j \in 1 .. Len(messages[s][k].sources.ids) :
                   OwnersOf(messages[s][k].sources.ids[j]) = {SessionTenant(s)}

\* both tenants have synced and each has an answer that cites its documents
C20_Witness ==
    /\ \A t \in Tenants : Namespace(t) # {}
    /\ \A s \in ChatSessions :
           /\ Len(messages[s]) = 2
           /\ messages[s][2].sources.ids # <<>>

\* the tables and the task list
Stored == <<connectors, progress, documents, next_doc, vectors, tasks, messages, sessions>>

\* C21: start_sync, get_sync_progress, chat and chat_stream asked for a
\* connector or session that is not the caller's answer 404 and change
\* nothing: no progress or connector column is written, no task is
\* scheduled, no chat message is stored
C21_NotFoundChangesNothing ==
    [][/\ \A r \in Requests :
            (/\ reqs[r].pc = "check"
             /\ reqs'[r] # reqs[r]
             /\ connectors[reqs[r].connector_id].tenant_id # reqs[r].tenant) =>
                /\ reqs'[r] = Respond(r, 404)[r]
                /\ UNCHANGED Stored
       /\ \A r \in Requests :
            (reqs[r].pc # "idle" /\ reqs'[r].pc = "idle" /\ reqs'[r].resp = 404) =>
                UNCHANGED Stored
       /\ (poll' # poll /\ connectors[poll'.asked].tenant_id # poll'.tenant) =>
                /\ poll'.code = 404
                /\ UNCHANGED Stored
       /\ (turn'.n = turn.n + 1 /\ SessionTenant(turn'.session) # turn'.tenant) =>
                /\ turn'.code = 404
                /\ turn'.pc = "idle"
                /\ UNCHANGED Stored]_vars

\* after a sync of the connector and an answered chat turn, the other
\* tenant has been refused the sync, the progress and the chat
C21_Witness ==
    /\ reqs[1].resp = 404
    /\ poll.code = 404
    /\ turn.code = 404
    /\ turn.mode = "stream"
    /\ Len(tasks) = 1
    /\ \E s \in ChatSessions : Len(messages[s]) = 2

\* ------------------------------------------------ syncs after a failure
\* the latest task of the connector that ended before task i was scheduled
\* ended in the exception handler: task i was started from 'failed'
StartedFromFailed(i) ==
    \E j \in tasks[i].after :
        /\ tasks[j].connector_id = tasks[i].connector_id
        /\ tasks[j].pc = "done" /\ tasks[j].err # None
        /\ \A k \in tasks[i].after :
               tasks[k].connector_id = tasks[i].connector_id => k <= j

\* the order of the steps of run_sync_task
PipelineOrder ==
    {<<"start", "fetch">>, <<"fetch", "dedup">>, <<"dedup", "persist">>,
     <<"dedup", "finish">>, <<"persist", "index">>, <<"index", "finish">>,
     <<"finish", "done">>, <<"handler", "done">>, <<"handler", "crashed">>}
        \cup {<<"start", "handler">>} \cup {<<step, "handler">> : step \in RaisingSteps}

\* the items of a batch that a Document of the connector matches
Known(items, c) ==
    {k \in 1 .. Len(items) :
        /\ items[k].external_id # None
        /\ \E d \in documents : d.connector_id = c /\ d.external_id = items[k].external_id}

KnownIds(items, c) == {items[k].external_id : k \in Known(items, c)}

WithoutId(items) ==
    LET NoId(item) == item.external_id = None IN SelectSeq(items, NoId)

\* C24: the dedup step of a sync sends one lookup for the whole fetched
\* batch whatever its size, and none when no item of the batch carries an
\* external id (an empty batch among them); the items without an external
\* id are all among the new items
C24_OneLookup ==
    [][\A i \in TaskIds :
          (tasks[i].pc = "dedup" /\ tasks'[i].pc \in {"persist", "finish"}) =>
              LET items == tasks[i].items IN
              /\ tasks'[i].lookups = IF WithoutId(items) = items THEN 0 ELSE 1
              /\ WithoutId(tasks'[i].new_items) = WithoutId(items)]_vars

\* one sync looked two external ids up, another fetched an item without
\* an external id and kept it as new
C24_Witness ==
    \E i, j \in TaskIds :
        /\ tasks[i].pc = "done" /\ tasks[j].pc = "done"
        /\ Len(tasks[i].items) = 2 /\ WithoutId(tasks[i].items) = <<>>
        /\ tasks[i].lookups = 1
        /\ Len(tasks[j].items) = 1 /\ tasks[j].new_items = tasks[j].items
        /\ WithoutId(tasks[j].items) = tasks[j].items
        /\ tasks[j].lookups = 0

\* ------------------------------------------------ the vector index
Ceil(n, b) == (n + b - 1) \div b

\* the batches are consecutive pieces of the list, each of b elements but
\* possibly the last
ConsecutiveChunks(batches, list, b) ==
    /\ Flatten(batches) = list
    /\ \A k \in 1 .. Len(batches) :
           /\ Len(batches[k]) >= 1
           /\ Len(batches[k]) <= b
           /\ k < Len(batches) => Len(batches[k]) = b

\* C25: upsert_documents_batch on N documents with batch size B sends
\* ceil(N/B) embedding calls and ceil(N/B) upserts over consecutive chunks,
\* gives the i-th document the embedding of the i-th content, and returns
\* the N ids in input order; a sync that completes sets indexed_items to the
\* number of its documents that were upserted
C25_BatchedUpsert ==
    [][/\ (doc_op' # doc_op /\ doc_op'.op = "upsert_call" /\ doc_op'.code = 200) =>
            LET docs == doc_op'.docs
                N == Len(docs)
                B == doc_op'.batch_size
                sent == Flatten([k \in 1 .. Len(doc_op'.upserts) |->
                                    doc_op'.upserts[k].vectors])
            IN  /\ Len(doc_op'.embed_calls) = Ceil(N, B)
                /\ Len(doc_op'.upserts) = Ceil(N, B)
                /\ ConsecutiveChunks(doc_op'.embed_calls,
                                     [k \in 1 .. N |-> docs[k].content], B)
                /\ ConsecutiveChunks([k \in 1 .. Len(doc_op'.upserts) |->
                                         doc_op'.upserts[k].vectors], sent, B)
                /\ Len(sent) = N
                /\ \A k \in 1 .. N :
                       /\ sent[k].id = docs[k].id
                       /\ sent[k].values = [of |-> docs[k].content]
                /\ \A k \in 1 .. Len(doc_op'.upserts) :
                       doc_op'.upserts[k].namespace = doc_op'.tenant
                /\ doc_op'.ids = [k \in 1 .. N |-> docs[k].id]
                /\ \A k \in 1 .. N : <<doc_op'.tenant, docs[k].id>> \in vectors'
       /\ \A i \in TaskIds :
            (Completes(i) /\ tasks[i].new_items # <<>>) =>
                /\ RowOf(tasks[i])'.indexed_items =
                       Cardinality({k \in 1 .. Len(tasks[i].docs) :
                                       <<tasks[i].tenant_id, tasks[i].docs[k]>> \in vectors'})
                /\ RowOf(tasks[i])'.indexed_items = Len(tasks[i].docs)]_vars

\* three documents went through in batches of two, the same document twice
\* among them, and a sync completed with two documents indexed
C25_Witness ==
    /\ doc_op.op = "upsert_call" /\ doc_op.code = 200
    /\ Len(doc_op.docs) = 3 /\ doc_op.batch_size = 2
    /\ doc_op.docs[1] = doc_op.docs[3] /\ doc_op.docs[1] # doc_op.docs[2]
    /\ Len(doc_op.upserts) = 2
    /\ \E i \in TaskIds :
           /\ tasks[i].pc = "done"
           /\ RowOf(tasks[i]).indexed_items = 2

\* C26: in a streamed turn [DONE] is sent only after every chunk of the
\* generation was forwarded and the assistant message was handed to the
\* store; a turn that failed before that never sends it
C26_DoneAfterStore ==
    /\ turn.done =>
           /\ turn.mode = "stream"
           /\ turn.raised = None /\ ~turn.stopped
           /\ turn.chunks = Yielded(turn.arrived)
           /\ turn.message_id = turn.user_id + 1
           /\ Len(messages[turn.session]) >= turn.message_id
           /\ messages[turn.session][turn.message_id].role = "assistant"
           /\ messages[turn.session][turn.message_id].content = Concat(turn.chunks)
    /\ (turn.raised # None \/ turn.stopped \/ turn.pc # "idle") => ~turn.done

\* [DONE] was sent after one chunk was forwarded and one delta without
\* content was dropped
C26_Witness ==
    /\ turn.done
    /\ Len(turn.arrived) = 2
    /\ Len(turn.chunks) = 1
    /\ messages[turn.session][turn.message_id].content = turn.chunks[1]

\* ------------------------------------------------ sessions
\* C27: every add_message on an existing session sets the session's
\* updated_at to the current time, later than every other session's, so
\* get_sessions of the tenant lists the session that received the latest
\* message first
C27_LatestSessionFirst ==
    [][\A s \in SessionIds :
          Len(messages'[s]) > Len(messages[s]) =>
              /\ sessions'[s].updated_at = Now
              /\ \A o \in SessionIds \ {s} : sessions'[o].updated_at < sessions'[s].updated_at
              /\ \A q \in get_sessions(sessions', SessionTenant(s)) : q[1] = s]_vars

\* the tenant's older session received the latest message, after its newer
\* session had received one, and is listed first
C27_Witness ==
    /\ sessions["s3"].exists
    /\ Len(messages["s3"]) = 2
    /\ Len(messages["s1"]) = 2
    /\ sessions["s3"].updated_at > sessions["s3"].created_at
    /\ get_sessions(sessions, "t1") = {<<"s1", "s3">>}

\* ------------------------------------------------ documents left unindexed
\* task j failed in its index step after persisting documents, and ended
\* before task i was scheduled for the same connector; task i fetched the
\* same items
AfterIndexFailure(i, j) ==
    /\ j \in tasks[i].after
    /\ tasks[j].connector_id = tasks[i].connector_id
    /\ tasks[j].pc = "done" /\ tasks[j].err = "index"
    /\ tasks[j].docs # <<>>
    /\ tasks[i].items = tasks[j].items

\* what the later sync i leaves when it completes: the documents of j are
\* in the store and not in the index, nothing was created or indexed
NothingIndexed(i, j) ==
    LET p == RowOf(tasks[i])' IN
    /\ \A k \in 1 .. Len(tasks[j].docs) :
           /\ \E d \in documents' : d.id = tasks[j].docs[k]
           /\ <<tasks[j].tenant_id, tasks[j].docs[k]>> \notin vectors'
    /\ tasks[i].new_items = <<>>
    /\ tasks[i].docs = <<>> /\ tasks[i].indexed = <<>>
    /\ p.status = "completed"
    /\ p.processed_items = 0
    /\ p.indexed_items = 0

LeftUnindexed(i, j) ==
    /\ \A k \in 1 .. Len(tasks[j].docs) :
           /\ \E d \in documents' : d.id = tasks[j].docs[k]
           /\ <<tasks[j].tenant_id, tasks[j].docs[k]>> \notin vectors'
    /\ tasks[i].new_items = <<>>
    /\ tasks[i].docs = <<>> /\ tasks[i].indexed = <<>>
    /\ RowOf(tasks[i])'.status = "completed"

IndexingColumnsKept ==
    \A d \in documents : \A e \in documents' :
        e.id = d.id =>
            /\ e.status = d.status
            /\ e.is_indexed = d.is_indexed
            /\ e.vector_id = d.vector_id

\* the documents sync i created and upserted are in the index and still
\* carry the column defaults; the statistics count them as pending
PendingThoughIndexed(i) ==
    LET t == tasks[i]
        stats == get_document_stats(t.tenant_id)'
    IN
    /\ \A k \in 1 .. Len(t.indexed) :
           /\ <<t.tenant_id, t.indexed[k]>> \in vectors'
           /\ \E d \in documents' :
                  /\ d.id = t.indexed[k]
                  /\ d.status = "pending"
                  /\ d.is_indexed = FALSE
                  /\ d.vector_id = None
    /\ stats.pending >= Len(t.indexed)
    /\ stats.indexed = 0
    /\ stats.in_vector_db = 0

\* C29: no step of a sync writes status, is_indexed or vector_id of a
\* document; when a sync ends 'completed' the documents it created and
\* upserted are still 'pending' with is_indexed false, and
\* get_document_stats counts them under pending, not under indexed or
\* in_vector_db
C29_PendingAfterIndexing ==
    [][/\ IndexingColumnsKept
       /\ \A i \in TaskIds : Completes(i) => PendingThoughIndexed(i)]_vars

\* a completed sync upserted two documents, both still pending
C29_Witness ==
    \E i \in TaskIds :
        /\ tasks[i].pc = "done" /\ tasks[i].err = None
        /\ Len(tasks[i].indexed) = 2
        /\ RowOf(tasks[i]).status = "completed"
        /\ \A k \in 1 .. 2 : <<tasks[i].tenant_id, tasks[i].indexed[k]>> \in vectors
        /\ get_document_stats(tasks[i].tenant_id).pending >= 2
        /\ get_document_stats(tasks[i].tenant_id).in_vector_db = 0

\* --------------------------------------------- the counters of a record
\* failed_items is 0, the counters are ordered, and the percent reported
\* for the record lies between 0 and 100 (in tenths of a percent)
CountersOrdered(p) ==
    /\ p.failed_items = 0
    /\ 0 <= p.indexed_items
    /\ p.indexed_items <= p.processed_items
    /\ p.processed_items <= p.total_items
    /\ SyncProgressResponse(p).percent \in 0 .. 1000

\* C30: in every reachable state of a SyncProgress record failed_items is
\* 0 and 0 <= indexed_items <= processed_items <= total_items, so the
\* percent get_sync_progress reports is between 0 and 100
C30_CountersOrdered ==
    \A c \in DOMAIN progress : \A k \in 1 .. Len(progress[c]) :
        CountersOrdered(progress[c][k])

\* the syncs of connector c were scheduled one after the other had ended
OneAtATime(c) ==
    \A i, j \in TaskIds :
        (i # j /\ tasks[i].connector_id = c /\ tasks[j].connector_id = c) =>
            (i \in tasks[j].after \/ j \in tasks[i].after)

\* the records of a connector whose syncs never overlapped have ordered
\* counters
Isolated_CountersOrdered ==
    \A c \in DOMAIN progress :
        OneAtATime(c) =>
            \A k \in 1 .. Len(progress[c]) : CountersOrdered(progress[c][k])

====
